---------------------------- MODULE Spec2Model ----------------------------
(***************************************************************************)
(* A model of asyncua_utils/nodes.py: browse_nodes (the tree exporter),    *)
(* clone_nodes (the tree cloner), fix_name and add_variable.               *)
(*                                                                         *)
(* Python values are records [kind, n, s, items]; a dict is a TLA+ record  *)
(* whose DOMAIN is the set of keys the dict holds, so that a key that is   *)
(* absent differs from a key that holds None.  Strings that the code       *)
(* parses (display names, node ids) are sequences of characters.  A nested *)
(* dict tree is a table from node index to dict whose 'children' entry is  *)
(* a sequence of indices: assigning to nodes_dict['name'] changes the      *)
(* table, as it changes the caller's dict in Python.                       *)
(***************************************************************************)
EXTENDS Integers, Sequences, FiniteSets, TLC

\* Number of nodes of the provider's address space that browse_nodes walks.
MaxGraphNodes == 4
\* Number of nodes of the snapshot tree handed to clone_nodes.
MaxSnapNodes == 3

----------------------------------------------------------------------------
(* Python values *)

PyNone == [kind |-> "NoneType", n |-> 0, s |-> "", items |-> <<>>]
PyInt(i) == [kind |-> "int", n |-> i, s |-> "", items |-> <<>>]
PyFloat(i) == [kind |-> "float", n |-> i, s |-> "", items |-> <<>>]
PyBool(b) == [kind |-> "bool", n |-> IF b THEN 1 ELSE 0, s |-> "", items |-> <<>>]
PyStr(str) == [kind |-> "str", n |-> 0, s |-> str, items |-> <<>>]
PyList(vals) == [kind |-> "list", n |-> 0, s |-> "", items |-> vals]
\* an instance of a class defined in the asyncua package (ua.ExtensionObject, ...)
UaObject(cls) == [kind |-> "asyncua", n |-> 0, s |-> cls, items |-> <<>>]
\* a member of the enum asyncua.ua.uatypes.VariantType, by name
VariantType(name) == [kind |-> "VariantType", n |-> 0, s |-> name, items |-> <<>>]
\* the value datetime.datetime.today() returns
PyToday == [kind |-> "datetime", n |-> 0, s |-> "today", items |-> <<>>]

\* bool(v): None, zero, False, '' and [] are falsy; VariantType is an IntEnum
\* whose member Null has the value 0
Truthy(v) ==
  CASE v.kind = "NoneType" -> FALSE
    [] v.kind \in {"int", "float", "bool"} -> v.n # 0
    [] v.kind = "str" -> v.s # ""
    [] v.kind = "list" -> v.items # <<>>
    [] v.kind = "VariantType" -> v.s # "Null"
    [] OTHER -> TRUE

\* a == b in Python: numbers and booleans compare by value
PyEq(a, b) ==
  IF a.kind \in {"int", "float", "bool"} /\ b.kind \in {"int", "float", "bool"}
  THEN a.n = b.n
  ELSE a = b

\* dict.get(key): the entry, or None when the key is absent
Get(d, key) == IF key \in DOMAIN d THEN d[key] ELSE PyNone

\* dict with d[key] = val (the key added when absent)
SetKey(d, key, val) == [k \in DOMAIN d \cup {key} |-> IF k = key THEN val ELSE d[k]]

\* del d[key]
DelKey(d, key) == [k \in DOMAIN d \ {key} |-> d[k]]

----------------------------------------------------------------------------
(* fix_name *)

HttpPrefix == <<"h", "t", "t", "p", ":", "/", "/">>
DigitChars == <<"0", "1", "2", "3", "4", "5", "6", "7", "8", "9">>

StartsWith(name, prefix) ==
  /\ Len(name) >= Len(prefix)
  /\ SubSeq(name, 1, Len(prefix)) = prefix

\* str(i) for a non-negative int
RECURSIVE IntToStr(_)
IntToStr(i) ==
  IF i < 10 THEN <<DigitChars[i + 1]>>
  ELSE IntToStr(i \div 10) \o <<DigitChars[(i % 10) + 1]>>

\* re.search(r"^\d:", name)
HasNamespacePrefix(name) ==
  /\ Len(name) >= 2
  /\ \E i \in 1..Len(DigitChars) : name[1] = DigitChars[i]
  /\ name[2] = ":"

StripHttp(name) ==
  IF StartsWith(name, HttpPrefix)
  THEN SubSeq(name, Len(HttpPrefix) + 1, Len(name))
  ELSE name

fix_name(name, namespace_idx) ==
  LET stripped == StripHttp(name)
  IN IF HasNamespacePrefix(stripped)
     THEN IntToStr(namespace_idx) \o Tail(stripped)
     ELSE stripped

----------------------------------------------------------------------------
(* The target provider (base_object.add_object / add_variable).  A call is  *)
(* logged with its arguments; the failAt-th create call of a run fails.     *)
(* cs = [snap, calls, status, failAt, ret] is the state a clone threads     *)
(* through its calls: the dict table, the log of provider calls, "ok" or    *)
(* the way the run ended ("raised": an exception propagates, "exit": the    *)
(* process exits), and the value the last call returned: <<>> for None,     *)
(* <<id>> for a node, a sequence of pairs for a ret list.               *)

ProviderCreate(cs, op, parent, node_id, name, val, type) ==
  LET ok == Len(cs.calls) + 1 # cs.failAt
  IN [cs EXCEPT !.calls = Append(@, [op |-> op, parent |-> parent, id |-> node_id,
                                      name |-> name, val |-> val, type |-> type,
                                      ok |-> ok]),
                !.ret = IF ok THEN <<node_id>> ELSE <<>>,
                !.status = IF ok THEN "ok"
                           ELSE IF op = "add_variable" THEN "exit" ELSE "raised"]

----------------------------------------------------------------------------
(* add_variable *)

\* lines 128-132: the declared type, a VariantType member or None
NodeType(node_dict) ==
  LET node_type == Get(node_dict, "type")
  IN IF node_type.kind = "str" THEN VariantType(node_type.s) ELSE node_type

\* line 134: whether the captured value is used
UseCurrentValue(node_dict) == Truthy(Get(node_dict, "current_value"))

IntegerFloatTypes ==
  {VariantType(t) : t \in {"Int16", "UInt16", "Int32", "UInt32", "Int64", "UInt64", "Float"}}
TextTypes == {VariantType(t) : t \in {"String", "LocalizedText", "Byte"}}

\* lines 134-152: [declined, val], the value passed to the create call
OriginalVal(node_dict) ==
  LET node_type == NodeType(node_dict)
  IN IF UseCurrentValue(node_dict)
       THEN [declined |-> FALSE, val |-> node_dict["current_value"]]
     ELSE IF node_type = VariantType("Boolean")
       THEN [declined |-> FALSE, val |-> PyBool(FALSE)]
     ELSE IF node_type \in IntegerFloatTypes
       THEN [declined |-> FALSE, val |-> PyInt(0)]
     ELSE IF node_type \in TextTypes
       THEN [declined |-> FALSE, val |-> PyStr("")]
     ELSE IF node_type = VariantType("DateTime")
       THEN [declined |-> FALSE, val |-> PyToday]
     ELSE IF node_type = VariantType("ExtensionObject")
       THEN [declined |-> TRUE, val |-> PyNone]
     ELSE [declined |-> FALSE, val |-> PyFloat(0)]

\* cs after add_variable(base_object, node_dict, node_id); cs.ret is <<id>> of
\* the created node, or <<>> for None
add_variable(cs, base_object, node_dict, node_id) ==
  LET r == OriginalVal(node_dict)
  IN IF r.declined
     THEN [cs EXCEPT !.ret = <<>>]
     ELSE ProviderCreate(cs, "add_variable", base_object, node_id,
                         node_dict["name"], r.val, NodeType(node_dict))

----------------------------------------------------------------------------
(* clone_nodes *)

\* line 95: nodes_dict['cls'] in [1, 'Object']
IsObject(nodes_dict) ==
  \E c \in {PyInt(1), PyStr("Object")} : PyEq(nodes_dict["cls"], c)

\* line 104: nodes_dict['cls'] in [2, 'Variable']
IsVariable(nodes_dict) ==
  \E c \in {PyInt(2), PyStr("Variable")} : PyEq(nodes_dict["cls"], c)

\* a test of the 'children' entry that takes an empty list for children
HasChildrenEntry(nodes_dict) == "children" \in DOMAIN nodes_dict

\* line 98: nodes_dict.get('children'), true of a non-empty list
HasChildren(nodes_dict) ==
  "children" \in DOMAIN nodes_dict /\ nodes_dict["children"] # <<>>

\* an extension that puts the child's pairs in front of those already collected
ExtendMappingInFront(mapping_list, child_mapping) == child_mapping \o mapping_list

\* line 101: mapping_list.extend(<the child's ret>)
ExtendMapping(mapping_list, child_mapping) == mapping_list \o child_mapping

\* line 110: mapping_list.append((nodes_dict['id'], mapped_id))
AppendMapping(mapping_list, source_id, mapped_id) ==
  Append(mapping_list, <<source_id, mapped_id>>)

RECURSIVE clone_nodes(_, _, _, _, _)
RECURSIVE clone_children(_, _, _, _, _, _, _)

\* lines 100-101: the loop over nodes_dict['children'] from its i-th entry on,
\* with mapping_list as accumulated so far
clone_children(cs, children, i, mapping_list, next_obj, idx, node_id_prefix) ==
  IF i > Len(children)
  THEN [cs EXCEPT !.ret = mapping_list]
  ELSE LET c == clone_nodes(cs, children[i], next_obj, idx, node_id_prefix)
       IN IF c.status # "ok"
          THEN c
          ELSE clone_children(c, children, i + 1, ExtendMapping(mapping_list, c.ret),
                              next_obj, idx, node_id_prefix)

\* cs after clone_nodes(nodes_dict, base_object, idx, node_id_prefix), where
\* nodes_dict is the dict at index n of the table; cs.ret is the ret list
clone_nodes(cs, n, base_object, idx, node_id_prefix) ==
  LET node_id == node_id_prefix \o cs.snap[n]["id"]
      c1 == [cs EXCEPT !.snap[n] = SetKey(@, "name", fix_name(@["name"], idx))]
      nodes_dict == c1.snap[n]
  IN IF IsObject(nodes_dict)
     THEN IF HasChildren(nodes_dict)
          THEN LET c2 == ProviderCreate(c1, "add_object", base_object, node_id,
                                        nodes_dict["name"], PyNone, PyNone)
               IN IF c2.status # "ok"
                  THEN c2
                  ELSE clone_children(c2, nodes_dict["children"], 1, <<>>,
                                      node_id, idx, node_id_prefix)
          ELSE [c1 EXCEPT !.ret = <<>>]
     ELSE IF IsVariable(nodes_dict)
     THEN LET c2 == add_variable(c1, base_object, nodes_dict, node_id)
          IN IF c2.status # "ok"
             THEN c2
             ELSE IF c2.ret = <<>>
             THEN [c2 EXCEPT !.ret = <<>>]
             ELSE [c2 EXCEPT !.ret = AppendMapping(<<>>, nodes_dict["id"], c2.ret[1])]
     ELSE [c1 EXCEPT !.status = "raised"]

----------------------------------------------------------------------------
(* State *)

VARIABLES
  graph,    \* the source provider's address space: node index -> its readings
  tree,     \* the dict table browse_nodes built (<<>> before it returns)
  snap,     \* the dict table handed to clone_nodes / add_variable
  orig,     \* snap as it was first handed over
  calls,    \* the create calls the last run issued on the target provider
  ret,      \* what the last run returned: clone_nodes' mapping list, or
            \* add_variable's node (<<id>>, <<>> for None)
  status,   \* "idle", or how the last run ended: "ok", "raised", "exit"
  args      \* the arguments of the last run

vars == <<graph, tree, snap, orig, calls, ret, status, args>>

NoArgs == [idx |-> 0, prefix |-> <<>>, to_export |-> FALSE, fault |-> ""]

----------------------------------------------------------------------------
(* Snapshot trees handed to clone_nodes *)

\* NodeClass(code).name, for the classes the model draws
NodeClassName(code) ==
  CASE code = 1 -> "Object" [] code = 2 -> "Variable" [] code = 4 -> "Method"
    [] OTHER -> "Unspecified"

NodeIdOf(i) == <<"n">> \o IntToStr(i)

NameNs == <<"1", ":", "N">>
NameHttp == HttpPrefix \o NameNs

\* what a node of a snapshot may be: its class code, name, declared type
\* ("" for none) and captured value (<<>> for none)
SnapProfiles ==
  { [cls |-> 1, name |-> NameHttp, type |-> "", val |-> <<>>],
    [cls |-> 4, name |-> NameNs, type |-> "", val |-> <<>>],
    [cls |-> 2, name |-> NameNs, type |-> "Int32", val |-> <<PyInt(42)>>],
    [cls |-> 2, name |-> NameNs, type |-> "ExtensionObject", val |-> <<>>],
    [cls |-> 2, name |-> NameNs, type |-> "ExtensionObject",
     val |-> <<UaObject("ExtensionObject")>>] }

\* the ordered children of p in a tree of m nodes with parent function par
RECURSIVE KidsFrom(_, _, _, _)
KidsFrom(par, m, p, i) ==
  IF i > m THEN <<>>
  ELSE (IF par[i] = p THEN <<i>> ELSE <<>>) \o KidsFrom(par, m, p, i + 1)

\* the ordered trees of m nodes rooted at 1, each once: nodes are numbered
\* level by level, so every node hangs below an earlier one and parents do not
\* decrease
TreeShapes(m) ==
  { par \in [2..m -> 1..m] :
      /\ \A i \in 2..m : par[i] < i
      /\ \A i \in 2..(m - 1) : par[i] <= par[i + 1] }

WithOptional(d, key, present, val) == IF present THEN SetKey(d, key, val) ELSE d

\* the dict of node i in the shape browse_nodes gives it: "internal"
\* (to_export=False: class code, VariantType member, children always there) or
\* "external" (to_export=True: names, empty fields left out)
SnapDict(i, prof, form, kids) ==
  LET base == [id |-> NodeIdOf(i), name |-> prof.name,
               cls |-> IF form = "internal" THEN PyInt(prof.cls)
                       ELSE PyStr(NodeClassName(prof.cls))]
      typed == IF form = "internal"
               THEN SetKey(base, "type",
                           IF prof.type = "" THEN PyNone ELSE VariantType(prof.type))
               ELSE WithOptional(base, "type", prof.type # "", PyStr(prof.type))
      valued == WithOptional(typed, "current_value", prof.val # <<>>,
                             IF prof.val # <<>> THEN prof.val[1] ELSE PyNone)
  IN WithOptional(valued, "children", form = "internal" \/ kids # <<>>, kids)

\* the dict table of m nodes with these profiles and parents
SnapTable(m, profs, par, form) ==
  [i \in 1..m |-> SnapDict(i, profs[i], form, KidsFrom(par, m, i, 2))]

----------------------------------------------------------------------------
(* CloneSpec: clone_nodes run, again and again, on one snapshot *)

Idxs == {2, 12}
Prefixes == {<<>>, <<"m", "/">>}
BaseObject == <<"b", "a", "s", "e">>

CloneInit ==
  /\ \E m \in 1..MaxSnapNodes, form \in {"internal", "external"} :
       \E profs \in [1..m -> SnapProfiles], par \in TreeShapes(m) :
         snap = SnapTable(m, profs, par, form)
  /\ orig = snap
  /\ calls = <<>>
  /\ ret = <<>>
  /\ status = "idle"
  /\ args = NoArgs
  /\ graph = <<>>
  /\ tree = <<>>

\* clone_nodes(snap[1], base_object, idx, node_id_prefix), the failAt-th create
\* call failing (0: none)
CloneNodes(idx, node_id_prefix, failAt) ==
  \E c \in {clone_nodes([snap |-> snap, calls |-> <<>>, status |-> "ok",
                         failAt |-> failAt, ret |-> <<>>],
                        1, BaseObject, idx, node_id_prefix)} :
     /\ snap' = c.snap
     /\ calls' = c.calls
     /\ status' = c.status
     /\ ret' = IF c.status = "ok" THEN c.ret ELSE <<>>
     /\ args' = [NoArgs EXCEPT !.idx = idx, !.prefix = node_id_prefix]
     /\ UNCHANGED <<orig, graph, tree>>

CloneNext ==
  \E idx \in Idxs, node_id_prefix \in Prefixes, failAt \in 0..Len(snap) :
    CloneNodes(idx, node_id_prefix, failAt)

CloneSpec == CloneInit /\ [][CloneNext]_vars

----------------------------------------------------------------------------
(* AddVariableSpec: add_variable on one Variable dict *)

DeclaredTypes ==
  {"Boolean", "Int16", "UInt16", "Int32", "UInt32", "Int64", "UInt64", "Float",
   "Double", "String", "LocalizedText", "Byte", "DateTime", "ExtensionObject"}

CapturedValues ==
  {PyNone, PyInt(0), PyInt(42), PyBool(FALSE), PyBool(TRUE), PyStr(""), PyStr("on"),
   PyList(<<>>), UaObject("ExtensionObject")}

\* the 'type' entry: <<>> for no entry, else <<value>>
TypeEntries ==
  {<<>>, <<PyNone>>} \cup {<<PyStr(t)>> : t \in DeclaredTypes}
                     \cup {<<VariantType(t)>> : t \in DeclaredTypes}

\* the 'current_value' entry: <<>> for no entry, else <<value>>
ValueEntries == {<<>>} \cup {<<v>> : v \in CapturedValues}

VariableDict(type, val) ==
  WithOptional(
    WithOptional([id |-> NodeIdOf(1), name |-> NameNs, cls |-> PyInt(2)],
                 "type", type # <<>>, IF type # <<>> THEN type[1] ELSE PyNone),
    "current_value", val # <<>>, IF val # <<>> THEN val[1] ELSE PyNone)

AddVariableInit ==
  /\ snap \in { <<VariableDict(type, val)>> : type \in TypeEntries, val \in ValueEntries }
  /\ orig = snap
  /\ calls = <<>>
  /\ ret = <<>>
  /\ status = "idle"
  /\ args = NoArgs
  /\ graph = <<>>
  /\ tree = <<>>

\* add_variable(base_object, snap[1], node_id), the create call failing when
\* failAt = 1
AddVariable(failAt) ==
  /\ status = "idle"
  /\ \E c \in {add_variable([snap |-> snap, calls |-> <<>>, status |-> "ok",
                             failAt |-> failAt, ret |-> <<>>],
                            BaseObject, snap[1], snap[1]["id"])} :
     /\ calls' = c.calls
     /\ status' = c.status
     /\ ret' = c.ret
     /\ UNCHANGED <<snap, orig, args, graph, tree>>

AddVariableNext == \E failAt \in 0..1 : AddVariable(failAt)

AddVariableSpec == AddVariableInit /\ [][AddVariableNext]_vars

----------------------------------------------------------------------------
(* The source provider.  graph[n] holds what the provider answers for node  *)
(* n: its class code, browse name, children, and how the reads of its data  *)
(* type and value end.  A value read that fails raises the error the run's  *)
(* fault names.                                                             *)

\* line 43: the errors of get_value that browse_nodes catches
CaughtValueErrors ==
  {"BadOutOfService", "BadAttributeIdInvalid", "BadInternalError",
   "BadSecurityModeInsufficient"}

\* an error of get_value that it does not catch
OtherValueError == "BadUserAccessDenied"

\* the errors a run's failing value reads may raise ("" when no read fails)
Faults ==
  IF \E n \in DOMAIN graph : graph[n].value_fails
  THEN CaughtValueErrors \cup {OtherValueError}
  ELSE {""}

BrowseName(i) == <<"2", ":", "N">> \o IntToStr(i)

\* what a node of the address space may be: class code, whether
\* read_data_type_as_variant_type raises UaError, the type it returns, whether
\* get_value raises, the value it returns
GraphProfiles ==
  { [cls |-> 1, type_fails |-> FALSE, type |-> PyNone, value_fails |-> FALSE, value |-> PyNone],
    [cls |-> 4, type_fails |-> FALSE, type |-> PyNone, value_fails |-> FALSE, value |-> PyNone],
    [cls |-> 2, type_fails |-> FALSE, type |-> VariantType("Int32"),
     value_fails |-> FALSE, value |-> PyInt(42)],
    [cls |-> 2, type_fails |-> FALSE, type |-> VariantType("Int32"),
     value_fails |-> FALSE, value |-> PyNone],
    [cls |-> 2, type_fails |-> FALSE, type |-> VariantType("Int32"),
     value_fails |-> TRUE, value |-> PyNone],
    [cls |-> 2, type_fails |-> FALSE, type |-> VariantType("ExtensionObject"),
     value_fails |-> FALSE, value |-> UaObject("ExtensionObject")] }

GraphNode(i, prof, kids) ==
  [cls |-> prof.cls, name |-> BrowseName(i), kids |-> kids,
   type_fails |-> prof.type_fails, type |-> prof.type,
   value_fails |-> prof.value_fails, value |-> prof.value]

\* the address space of m nodes with these profiles and parents
Graph(m, profs, par) ==
  [i \in 1..m |-> GraphNode(i, profs[i], KidsFrom(par, m, i, 2))]

----------------------------------------------------------------------------
(* browse_nodes.  bs = [heap, out, status, ret] is the state an export      *)
(* threads through its calls: the path lists (a list is named by its index  *)
(* in heap, so that two names of one list see each other's appends), the    *)
(* dict built for each node visited, "ok" or "raised", and the children     *)
(* list the last loop built.                                                *)

\* a copy that hands back the list itself
SameList(heap, r) == [heap |-> heap, ref |-> r]

\* deepcopy(path): a new list with the contents of list r
DeepCopy(heap, r) == [heap |-> Append(heap, heap[r]), ref |-> Len(heap) + 1]

\* line 29: the classes of the children browse_nodes descends into
IsBrowsed(node_class) == node_class \in {1, 2}

\* check_if_object_is_from_module(obj_val, asyncua)
RECURSIVE check_if_object_is_from_module(_)
check_if_object_is_from_module(obj_val) ==
  IF obj_val.kind \in {"list", "dict"}
  THEN \E i \in 1..Len(obj_val.items) : check_if_object_is_from_module(obj_val.items[i])
  ELSE obj_val.kind \in {"asyncua", "VariantType"}

\* lines 33-44: [raised, var_type, current_value] read for node n
ReadVariable(n, fault) ==
  IF graph[n].cls # 2
  THEN [raised |-> FALSE, var_type |-> PyNone, current_value |-> PyNone]
  ELSE [raised |-> graph[n].value_fails /\ fault \notin CaughtValueErrors,
        var_type |-> IF graph[n].type_fails THEN PyNone ELSE graph[n].type,
        current_value |-> IF graph[n].value_fails THEN PyNone ELSE graph[n].value]

\* lines 45-53: the dict assembled for node n
Output(n, rd, path) ==
  LET output == [id |-> NodeIdOf(n), name |-> graph[n].name,
                 cls |-> PyInt(graph[n].cls), type |-> rd.var_type, path |-> path]
  IN WithOptional(output, "current_value", Truthy(rd.var_type), rd.current_value)

\* lines 59-69: the dict as to_export=True reshapes it
Exported(output, children) ==
  LET o1 == WithOptional(output, "children", Len(children) # 0, children)
      o2 == IF Truthy(o1["type"]) THEN SetKey(o1, "type", PyStr(o1["type"].s))
            ELSE DelKey(o1, "type")
      o3 == IF Truthy(o2["cls"]) THEN SetKey(o2, "cls", PyStr(NodeClassName(o2["cls"].n)))
            ELSE o2
  IN IF Truthy(Get(o3, "current_value"))
        /\ check_if_object_is_from_module(o3["current_value"])
     THEN DelKey(o3, "current_value")
     ELSE o3

\* lines 55-57: the dict as to_export=False completes it
Internal(output, n, children) ==
  SetKey(SetKey(output, "node", PyInt(n)), "children", children)

RECURSIVE browse_nodes(_, _, _, _, _)
RECURSIVE browse_children(_, _, _, _, _, _, _)

\* lines 28-32: the loop over node.get_children() from its i-th entry on
browse_children(bs, kids, i, children, path, to_export, fault) ==
  IF i > Len(kids)
  THEN [bs EXCEPT !.ret = children]
  ELSE IF IsBrowsed(graph[kids[i]].cls)
  THEN LET cp == DeepCopy(bs.heap, path)
           b == browse_nodes([bs EXCEPT !.heap = cp.heap], kids[i], to_export,
                             cp.ref, fault)
       IN IF b.status # "ok"
          THEN b
          ELSE browse_children(b, kids, i + 1, Append(children, kids[i]), path,
                               to_export, fault)
  ELSE browse_children(bs, kids, i + 1, children, path, to_export, fault)

\* bs after browse_nodes(node n, to_export, path), path = 0 for None; the dict
\* returned is bs.out[n]
browse_nodes(bs, n, to_export, path, fault) ==
  LET node_name == graph[n].name
      b1 == IF path = 0
            THEN [bs EXCEPT !.heap = Append(@, <<node_name>>)]
            ELSE [bs EXCEPT !.heap[path] = Append(@, node_name)]
      p == IF path = 0 THEN Len(b1.heap) ELSE path
      b2 == browse_children(b1, graph[n].kids, 1, <<>>, p, to_export, fault)
      rd == ReadVariable(n, fault)
      output == Output(n, rd, b2.heap[p])
      final == IF to_export THEN Exported(output, b2.ret)
               ELSE Internal(output, n, b2.ret)
  IN IF b2.status # "ok"
     THEN b2
     ELSE IF rd.raised
     THEN [b2 EXCEPT !.status = "raised"]
     ELSE [b2 EXCEPT !.out = SetKey(@, n, final)]

----------------------------------------------------------------------------
(* ExportSpec: browse_nodes run once on the root of an address space *)

ExportInit ==
  /\ \E m \in 1..MaxGraphNodes :
       \E profs \in [1..m -> GraphProfiles], par \in TreeShapes(m) :
         graph = Graph(m, profs, par)
  /\ tree = <<>>
  /\ status = "idle"
  /\ args = NoArgs
  /\ snap = <<>>
  /\ orig = <<>>
  /\ calls = <<>>
  /\ ret = <<>>

\* browse_nodes(node 1, to_export), value reads that fail raising fault
BrowseNodes(to_export, fault) ==
  /\ status = "idle"
  /\ \E b \in {browse_nodes([heap |-> <<>>, out |-> <<>>, status |-> "ok", ret |-> <<>>],
                             1, to_export, 0, fault)} :
     /\ status' = b.status
     /\ tree' = IF b.status = "ok" THEN b.out ELSE <<>>
     /\ args' = [NoArgs EXCEPT !.to_export = to_export, !.fault = fault]
     /\ UNCHANGED <<graph, snap, orig, calls, ret>>

ExportNext ==
  \E to_export \in BOOLEAN, fault \in Faults :
    BrowseNodes(to_export, fault)

ExportSpec == ExportInit /\ [][ExportNext]_vars

----------------------------------------------------------------------------
(* Vocabulary of the properties *)

Range(seq) == { seq[i] : i \in 1..Len(seq) }

\* the children list of node n of a dict table (empty when the key is absent)
KidsOfDict(tab, n) == IF "children" \in DOMAIN tab[n] THEN tab[n]["children"] ELSE <<>>

\* the nodes of a dict table strictly below node n
RECURSIVE Below(_, _)
Below(tab, n) ==
  UNION { {k} \cup Below(tab, k) : k \in Range(KidsOfDict(tab, n)) }

\* the pre-order walk of the subtree of node n, children in list order
RECURSIVE PreOrder(_, _)
RECURSIVE PreOrderOfList(_, _, _)
PreOrderOfList(tab, kids, i) ==
  IF i > Len(kids) THEN <<>>
  ELSE PreOrder(tab, kids[i]) \o PreOrderOfList(tab, kids, i + 1)
PreOrder(tab, n) == <<n>> \o PreOrderOfList(tab, KidsOfDict(tab, n), 1)

\* the position of node n in the pre-order walk from the root
PreIndex(tab, n) == CHOOSE i \in 1..Len(PreOrder(tab, 1)) : PreOrder(tab, 1)[i] = n

\* the nodes of snap above node n
AncestorsInSnap(n) == { a \in DOMAIN snap : n \in Below(snap, a) }

\* the node of snap a target id stands for, under the last run's prefix
SnapNodeOfTarget(target_id) ==
  CHOOSE n \in DOMAIN snap : args.prefix \o snap[n]["id"] = target_id

\* the node of snap a source id stands for
SnapNodeOfSource(source_id) == CHOOSE n \in DOMAIN snap : snap[n]["id"] = source_id

\* the indices of the create calls issued for node n of snap
CallsFor(n) == { i \in 1..Len(calls) : calls[i].id = args.prefix \o snap[n]["id"] }

\* the indices of the mapping pairs whose source is node n of snap
PairsFor(n) == { i \in 1..Len(ret) : ret[i][1] = snap[n]["id"] }

IsExtensionObject(nodes_dict) == NodeType(nodes_dict) = VariantType("ExtensionObject")

\* a clone has run to its end and returned its mapping
CloneReturned == status = "ok"

----------------------------------------------------------------------------
(* Properties of clone_nodes (CloneSpec) *)

\* C1: when a clone returns, its mapping holds exactly one pair for every
\* Variable node of the snapshot whose declared type is not ExtensionObject,
\* and no pair whose source is the id of an Object node.
C1_MappingCoversVariables ==
  CloneReturned =>
    /\ \A n \in DOMAIN snap :
         (IsVariable(snap[n]) /\ ~IsExtensionObject(snap[n]))
           => Cardinality(PairsFor(n)) = 1
    /\ \A n \in DOMAIN snap : IsObject(snap[n]) => PairsFor(n) = {}

\* C3: a Variable whose declared type is ExtensionObject, whatever its
\* current_value, gets no create call and no mapping pair, and the clone goes
\* on: a run that returns has handled every later sibling that is a Variable of
\* another type.
C3_ExtensionObjectDeclined ==
  \A n \in DOMAIN snap :
    (IsVariable(snap[n]) /\ IsExtensionObject(snap[n])) =>
      /\ CallsFor(n) = {}
      /\ PairsFor(n) = {}
      /\ \A p \in DOMAIN snap :
           \A i, j \in 1..Len(KidsOfDict(snap, p)) :
             ( /\ CloneReturned
               /\ IsObject(snap[p])
               /\ \A a \in AncestorsInSnap(p) : IsObject(snap[a])
               /\ KidsOfDict(snap, p)[i] = n
               /\ i < j
               /\ IsVariable(snap[KidsOfDict(snap, p)[j]])
               /\ ~IsExtensionObject(snap[KidsOfDict(snap, p)[j]]) )
             => CallsFor(KidsOfDict(snap, p)[j]) # {}

\* the Object nodes clone_nodes is applied to in a run that returns: the root
\* and the children of Object nodes
ClonedObjects ==
  { n \in DOMAIN snap :
      IsObject(snap[n]) /\ \A a \in AncestorsInSnap(n) : IsObject(snap[a]) }

\* C5: an Object node without children (no 'children' entry, or an empty one)
\* gets no create call, and a clone of such a root issues no call at all and
\* returns an empty mapping; an Object node with children that clone_nodes is
\* applied to gets exactly one create call, an add_object, and every create
\* call for a node below it comes after that call.
C5_ObjectCreatedOnlyWithChildren ==
  \A n \in DOMAIN snap :
    IsObject(snap[n]) =>
      /\ KidsOfDict(snap, n) = <<>> => CallsFor(n) = {}
      /\ (n = 1 /\ KidsOfDict(snap, n) = <<>> /\ status # "idle")
           => (calls = <<>> /\ ret = <<>> /\ status = "ok")
      /\ (KidsOfDict(snap, n) # <<>> /\ CloneReturned /\ n \in ClonedObjects)
           => Cardinality(CallsFor(n)) = 1
      /\ Cardinality(CallsFor(n)) <= 1
      /\ \A i \in CallsFor(n) : calls[i].op = "add_object"
      /\ \A k \in Below(snap, n) :
           \A j \in CallsFor(k) : \E i \in CallsFor(n) : i < j

\* C5 witness: a clone returned that was applied to a childless Object, for
\* which it issued no call, and to an Object with children, for which and for
\* a node below which it issued calls.
C5_Witness ==
  /\ CloneReturned
  /\ \E e \in ClonedObjects : KidsOfDict(snap, e) = <<>> /\ CallsFor(e) = {}
  /\ \E n \in ClonedObjects :
       /\ CallsFor(n) # {}
       /\ \E k \in Below(snap, n) : CallsFor(k) # {}

CloneCallNames(tab, idx) ==
  LET c == clone_nodes([snap |-> tab, calls |-> <<>>, status |-> "ok",
                        failAt |-> 0, ret |-> <<>>], 1, BaseObject, idx, <<>>)
  IN [i \in 1..Len(c.calls) |-> c.calls[i].name]

\* C10: clone_nodes leaves the snapshot as it was handed over, so a further
\* clone of it, under any namespace index, issues create calls with the names
\* a clone of the original snapshot issues.
C10_SnapshotUnchanged ==
  /\ snap = orig
  /\ \A idx \in Idxs : CloneCallNames(snap, idx) = CloneCallNames(orig, idx)

----------------------------------------------------------------------------
(* Properties of add_variable (AddVariableSpec) *)

\* the default add_variable is to pass for a declared type, when it has one
\* among the types C4 lists
TypeDefault(node_type) ==
  IF node_type = VariantType("Boolean") THEN <<PyBool(FALSE)>>
  ELSE IF node_type.s \in {"Int16", "UInt16", "Int32", "UInt32", "Int64", "UInt64", "Float"}
  THEN <<PyInt(0)>>
  ELSE IF node_type.s \in {"String", "LocalizedText", "Byte"}
  THEN <<PyStr("")>>
  ELSE <<>>

\* C4: the value of the create-variable call is the dict's current_value
\* whenever the dict has that entry, falsy values included, and the default of
\* the declared type only when it has none.
C4_ValuePassed ==
  \A i \in 1..Len(calls) :
    /\ "current_value" \in DOMAIN snap[1] => PyEq(calls[i].val, snap[1]["current_value"])
    /\ ("current_value" \notin DOMAIN snap[1] /\ TypeDefault(NodeType(snap[1])) # <<>>)
         => calls[i].val = TypeDefault(NodeType(snap[1]))[1]

----------------------------------------------------------------------------
(* Properties of browse_nodes (ExportSpec) *)

\* an export has run to its end and returned its tree
ExportReturned == status = "ok"

GraphParent(n) == CHOOSE p \in DOMAIN graph : n \in Range(graph[p].kids)

\* the nodes of the address space strictly below node n
RECURSIVE GraphBelow(_)
GraphBelow(n) == UNION { {k} \cup GraphBelow(k) : k \in Range(graph[n].kids) }

GraphAncestors(n) == { a \in DOMAIN graph : n \in GraphBelow(a) }

\* the browse names on the parent chain from the root down to node n
RECURSIVE ChainNames(_)
ChainNames(n) ==
  IF n = 1 THEN <<graph[n].name>>
  ELSE Append(ChainNames(GraphParent(n)), graph[n].name)

\* C2: no node of the tree an export returns, the top-level entry included,
\* has a class other than Object or Variable, and none is reached through a
\* node of another class.
C2_OnlyObjectsAndVariables ==
  ExportReturned =>
    \A n \in DOMAIN tree :
      /\ IsObject(tree[n]) \/ IsVariable(tree[n])
      /\ \A a \in GraphAncestors(n) : graph[a].cls \in {1, 2}

\* C6: the path of every node of the tree an export returns is the sequence
\* of browse names from the root down to the node; so the path of a node at or
\* below one child of a node holds no name of another child's subtree.
C6_PathIsParentChain ==
  ExportReturned =>
    \A n \in DOMAIN tree :
      /\ tree[n]["path"] = ChainNames(n)
      /\ \A p \in DOMAIN graph :
           \A a, b \in Range(graph[p].kids) :
             (a # b /\ n \in {a} \cup GraphBelow(a))
               => \A x \in {b} \cup GraphBelow(b) :
                    graph[x].name \notin Range(tree[n]["path"])

\* C6 witness: an export returned a tree with two children of one node, the
\* first of which has a child in the tree.
C6_Witness ==
  /\ ExportReturned
  /\ \E p \in DOMAIN tree :
       \E i, j \in 1..Len(KidsOfDict(tree, p)) :
         /\ i < j
         /\ KidsOfDict(tree, KidsOfDict(tree, p)[i]) # <<>>

\* the nodes browse_nodes is to visit: the root, and the Object and Variable
\* children of visited nodes
Browsable(n) ==
  /\ n = 1 \/ graph[n].cls \in {1, 2}
  /\ \A a \in GraphAncestors(n) : a = 1 \/ graph[a].cls \in {1, 2}

\* C8: when value reads fail with one of the four errors browse_nodes
\* catches, the export is not aborted, it visits every node it is to visit,
\* and the dict of a Variable whose read failed has no current_value entry.
C8_FailedReadLeavesValueAbsent ==
  args.fault \in CaughtValueErrors =>
    /\ ExportReturned
    /\ \A n \in DOMAIN graph : Browsable(n) => n \in DOMAIN tree
    /\ \A n \in DOMAIN tree :
         (graph[n].cls = 2 /\ graph[n].value_fails)
           => "current_value" \notin DOMAIN tree[n]

\* C9: in the tree an export returns, in either mode, a Variable has no
\* children, or an empty list of them.
C9_VariableHasNoChildren ==
  ExportReturned =>
    \A n \in DOMAIN tree : IsVariable(tree[n]) => KidsOfDict(tree, n) = <<>>

============================================================================
